---- MODULE Spec2Model ----
(***************************************************************************)
(* precise_image_to_svg (src/svgt.py): load an image, normalise its alpha  *)
(* channel, binarise it, trace the outer contours of the mask and emit one *)
(* filled path per contour that is large enough, after a background        *)
(* rectangle.  The OpenCV calls are modelled by what the library computes  *)
(* on integer pixel grids; the floating-point stages (grayscale, Gaussian  *)
(* blur, adaptive threshold) are a nondeterministic choice of the binary   *)
(* mask they hand to the morphology.                                       *)
(***************************************************************************)
EXTENDS Integers, Sequences, FiniteSets, TLC

\* ------------------------------------------------------------ bounds
\* An image has at most MaxPixels pixels (width * height).
MaxPixels == 12

\* ------------------------------------------------------------ helpers
Abs(n) == IF n < 0 THEN -n ELSE n

Min2(a, b) == IF a < b THEN a ELSE b

Max2(a, b) == IF a > b THEN a ELSE b

\* Python's int() of the quotient n / d (d # 0): truncation towards zero.
TruncDiv(n, d) ==
  LET q == Abs(n) \div Abs(d)
  IN IF (n < 0) = (d < 0) THEN q ELSE -q

Grid(cols, rows) == (0 .. cols - 1) \X (0 .. rows - 1)

PAdd(p, d) == <<p[1] + d[1], p[2] + d[2]>>

Reverse(s) == [k \in 1 .. Len(s) |-> s[Len(s) + 1 - k]]

\* ------------------------------------------------------------ morphology
\* cv2.getStructuringElement(cv2.MORPH_ELLIPSE, (3,3)): the 3x3 cross.
kernel == {<<0, 0>>, <<1, 0>>, <<-1, 0>>, <<0, 1>>, <<0, -1>>}

\* One dilation of the foreground set S in a w x h mask; pixels outside the
\* mask never contribute.
Dilate(S, cols, rows) ==
  {q : q \in {p \in Grid(cols, rows) : \E d \in kernel : PAdd(p, d) \in S}}

\* One erosion; pixels outside the mask never remove a pixel.
Erode(S, cols, rows) ==
  {q : q \in {p \in Grid(cols, rows) :
                \A d \in kernel : PAdd(p, d) \in Grid(cols, rows) => PAdd(p, d) \in S}}

\* cv2.morphologyEx(thr, MORPH_CLOSE, kernel, iterations=2)
MorphClose(S, cols, rows) ==
  Erode(Erode(Dilate(Dilate(S, cols, rows), cols, rows), cols, rows), cols, rows)

\* cv2.morphologyEx(clean, MORPH_OPEN, kernel, iterations=1)
MorphOpen(S, cols, rows) == Dilate(Erode(S, cols, rows), cols, rows)

\* ------------------------------------------------------------ findContours
\* The 8 chain-code directions, code s at index s + 1 (y grows downwards).
CodeDeltas ==
  <<<<1, 0>>, <<1, -1>>, <<0, -1>>, <<-1, -1>>,
    <<-1, 0>>, <<-1, 1>>, <<0, 1>>, <<1, 1>>>>

\* The value of a pixel of the labelled mask; the one-pixel frame is 0.
PixVal(mark, p) == IF p \in DOMAIN mark THEN mark[p] ELSE 0

Neighbour(p, s) == PAdd(p, CodeDeltas[(s % 8) + 1])

\* The clockwise search for the first non-zero neighbour of the start pixel
\* i0, from the west; the result is 4 when i0 is an isolated pixel.
RECURSIVE FirstNeighbour(_, _, _)
FirstNeighbour(mark, i0, s) ==
  LET s1 == (s + 7) % 8
  IN IF PixVal(mark, Neighbour(i0, s1)) # 0 \/ s1 = 4
     THEN s1
     ELSE FirstNeighbour(mark, i0, s1)

\* The counter-clockwise search round i3 from direction k (k <= 15).
RECURSIVE NextNeighbour(_, _, _)
NextNeighbour(mark, i3, k) ==
  IF k >= 15 \/ PixVal(mark, Neighbour(i3, k)) # 0
  THEN k
  ELSE NextNeighbour(mark, i3, k + 1)

\* Border following from i3 (last direction s), CHAIN_APPROX_NONE: every
\* border pixel is written.  A pixel whose east neighbour was passed as
\* background is labelled -126, any other visited pixel 2.
RECURSIVE FollowBorder(_, _, _, _, _, _)
FollowBorder(mark, i0, i1, i3, s, pts) ==
  LET k  == NextNeighbour(mark, i3, s + 1)
      s2 == k % 8
      i4 == Neighbour(i3, s2)
      m2 == IF s2 >= 1 /\ s2 - 1 < s
            THEN [mark EXCEPT ![i3] = -126]
            ELSE IF mark[i3] = 1 THEN [mark EXCEPT ![i3] = 2] ELSE mark
      out == Append(pts, i3)
  IN IF i4 = i0 /\ i3 = i1
     THEN [pts |-> out, mark |-> m2]
     ELSE FollowBorder(m2, i0, i1, i4, (s2 + 4) % 8, out)

\* The outer border that starts at pixel i0.
FetchContour(mark, i0) ==
  LET s == FirstNeighbour(mark, i0, 4)
  IN IF s = 4
     THEN [pts |-> <<i0>>, mark |-> [mark EXCEPT ![i0] = -126]]
     ELSE FollowBorder(mark, i0, Neighbour(i0, s), i0, s, <<>>)

\* The raster scan of RETR_EXTERNAL from pixel number n (row-major): a
\* contour starts at an unlabelled foreground pixel whose west neighbour is
\* background, unless the last labelled pixel passed in the row (lnbd, -1 for
\* none) is labelled 2, which means the scan is inside a contour.
RECURSIVE ScanContours(_, _, _, _, _, _)
ScanContours(mark, cols, rows, n, lnbd, found) ==
  IF n >= cols * rows
  THEN found
  ELSE
    LET x     == n % cols
        y     == n \div cols
        p     == mark[<<x, y>>]
        prev  == IF x = 0 THEN 0 ELSE mark[<<x - 1, y>>]
        lnb0  == IF x = 0 THEN -1 ELSE lnbd
        lval  == IF lnb0 < 0 THEN 0 ELSE mark[<<lnb0, y>>]
        start == p # prev /\ prev = 0 /\ p = 1 /\ ~(lval > 0)
        got   == FetchContour(mark, <<x, y>>)
        m2    == IF start THEN got.mark ELSE mark
        p2    == m2[<<x, y>>]
        lnb2  == IF p # prev /\ p2 \notin {0, 1} THEN x ELSE lnb0
    IN ScanContours(m2, cols, rows, n + 1, lnb2,
                    IF start THEN Append(found, got.pts) ELSE found)

\* The contours of the foreground set S of a w x h mask, in scan order.
TraceContours(S, cols, rows) ==
  ScanContours([p \in Grid(cols, rows) |-> IF p \in S THEN 1 ELSE 0],
               cols, rows, 0, -1, <<>>)

\* ------------------------------------------------------------ contour measures
PX(p) == p[1]

PY(p) == p[2]

\* The point before index k of the closed contour c (1-based, cyclic).
PrevPt(c, k) == c[IF k = 1 THEN Len(c) ELSE k - 1]

RECURSIVE SumTo(_, _)
SumTo(f, n) == IF n = 0 THEN 0 ELSE f[n] + SumTo(f, n - 1)

\* Green's-formula terms of a closed contour: a00 is twice the signed area,
\* a10 and a01 six times the signed first moments.
Cross(c, k) == PX(PrevPt(c, k)) * PY(c[k]) - PX(c[k]) * PY(PrevPt(c, k))

A00(c) == SumTo([k \in 1 .. Len(c) |-> Cross(c, k)], Len(c))

A10(c) ==
  SumTo([k \in 1 .. Len(c) |-> Cross(c, k) * (PX(PrevPt(c, k)) + PX(c[k]))],
        Len(c))

A01(c) ==
  SumTo([k \in 1 .. Len(c) |-> Cross(c, k) * (PY(PrevPt(c, k)) + PY(c[k]))],
        Len(c))

\* cv2.contourArea(contour), doubled: |a00| (the area is |a00| / 2).
contourArea2(c) == Abs(A00(c))

\* cv2.moments(contour): m00 doubled (equal to the doubled area), and the
\* numerators and the common denominator of m10/m00 and m01/m00.
moments(c) ==
  [m00x2 |-> Abs(A00(c)), num10 |-> A10(c), num01 |-> A01(c),
   den |-> 3 * A00(c)]

\* cv2.arcLength(contour, True) of a chain of 8-neighbour steps:
\* ortho + diag * sqrt(2), kept as the two counts.
SegLen2(c, k) ==
  (PX(c[k]) - PX(PrevPt(c, k))) * (PX(c[k]) - PX(PrevPt(c, k)))
  + (PY(c[k]) - PY(PrevPt(c, k))) * (PY(c[k]) - PY(PrevPt(c, k)))

arcLength(c) ==
  [ortho |-> Cardinality({k \in 1 .. Len(c) : SegLen2(c, k) = 1}),
   diag  |-> Cardinality({k \in 1 .. Len(c) : SegLen2(c, k) = 2})]

\* epsilon = detail * peri, with detail the fraction num/den.
Epsilon(frac, peri) == [num |-> frac[1], den |-> frac[2], peri |-> peri]

\* n <= m * epsilon^2 for naturals n, m, decided exactly:
\* epsilon^2 = (num/den)^2 * (ortho^2 + 2 diag^2 + 2 ortho diag sqrt(2)).
LeEps2(n, m, eps) ==
  LET a == eps.peri.ortho
      b == eps.peri.diag
      p2 == eps.num * eps.num
      X == n * eps.den * eps.den - m * p2 * (a * a + 2 * b * b)
      Y == 2 * a * b * m * p2
  IN IF X <= 0 THEN TRUE
     ELSE IF X > 2 * Y THEN FALSE
     ELSE X * X <= 2 * Y * Y

\* ------------------------------------------------------------ approxPolyDP
Dist2(p, q) ==
  (PX(p) - PX(q)) * (PX(p) - PX(q)) + (PY(p) - PY(q)) * (PY(p) - PY(q))

\* The source point at 0-based position pos.
SrcAt(src, pos) == src[(pos % Len(src)) + 1]

MaxOf(S) == CHOOSE m \in S : \A n \in S : n <= m

\* The first position where the sequence d of naturals takes its maximum,
\* and that maximum; position 0 when no entry is positive ("dist > max_dist"
\* never fired).
FirstMax(d) ==
  IF \A j \in DOMAIN d : d[j] = 0
  THEN [at |-> 0, max |-> 0]
  ELSE [at |-> CHOOSE j \in DOMAIN d :
                 d[j] = MaxOf({d[k] : k \in DOMAIN d})
                 /\ \A k \in 1 .. j - 1 : d[k] < d[j],
        max |-> MaxOf({d[k] : k \in DOMAIN d})]

\* The outcome of one pass given the start position and the previous offset.
PassResult(pos, rs, far) ==
  [pos |-> pos, rs |-> IF far.at = 0 THEN rs ELSE far.at, max |-> far.max]

\* One pass of "find the point farthest from the start point": the pass
\* starts at the point the previous pass found, and yields the offset of the
\* first farthest point (the previous offset when no point is farther than
\* 0) and the squared distance to it.
InitPass(src, prev) ==
  PassResult((prev.pos + prev.rs) % Len(src), prev.rs,
             FirstMax([j \in 1 .. Len(src) - 1 |->
                         Dist2(SrcAt(src, prev.pos + prev.rs + j),
                               SrcAt(src, prev.pos + prev.rs))]))

\* The init_iters = 3 initial passes of a closed curve.
InitSlices(src) ==
  InitPass(src, InitPass(src, InitPass(src, [pos |-> 0, rs |-> 0, max |-> 0])))

\* |cross product| of (pt - from) with (to - from).
Deviation(from, to, pt) ==
  Abs((PY(pt) - PY(from)) * (PX(to) - PX(from))
      - (PX(pt) - PX(from)) * (PY(to) - PY(from)))

\* The number of points strictly inside a slice.
Inner(src, slice) == (slice.end - slice.start - 1) % Len(src)

RECURSIVE SplitSlices(_, _, _, _)

\* Variant of the split: the left part is pushed first, so the right part is
\* handled before it.
SplitAtLeftFirst(src, eps, rest, slice, dst, far) ==
  IF Inner(src, slice) = 0
     \/ LeEps2(far.max * far.max,
               Dist2(SrcAt(src, slice.start), SrcAt(src, slice.end)), eps)
  THEN SplitSlices(src, eps, rest, Append(dst, SrcAt(src, slice.start)))
  ELSE SplitSlices(src, eps,
                   rest \o <<[start |-> slice.start,
                              end |-> (slice.start + far.at) % Len(src)],
                             [start |-> (slice.start + far.at) % Len(src),
                              end |-> slice.end]>>,
                   dst)

\* A slice whose farthest inner point is far: written as its start point
\* when that point is within epsilon of the chord, else split there, the
\* right part pushed first.
SplitAt(src, eps, rest, slice, dst, far) ==
  IF Inner(src, slice) = 0
     \/ LeEps2(far.max * far.max,
               Dist2(SrcAt(src, slice.start), SrcAt(src, slice.end)), eps)
  THEN SplitSlices(src, eps, rest, Append(dst, SrcAt(src, slice.start)))
  ELSE SplitSlices(src, eps,
                   rest \o <<[start |-> (slice.start + far.at) % Len(src),
                              end |-> slice.end],
                             [start |-> slice.start,
                              end |-> (slice.start + far.at) % Len(src)]>>,
                   dst)

\* The recursive splitting, with the explicit stack of slices (top last).
SplitSlices(src, eps, stack, dst) ==
  IF stack = <<>>
  THEN dst
  ELSE SplitAt(src, eps, SubSeq(stack, 1, Len(stack) - 1),
               stack[Len(stack)], dst,
               FirstMax([k \in 1 .. Inner(src, stack[Len(stack)]) |->
                           Deviation(SrcAt(src, stack[Len(stack)].start),
                                     SrcAt(src, stack[Len(stack)].end),
                                     SrcAt(src, stack[Len(stack)].start + k))]))

\* Whether the point pt between start_pt and end_pt is dropped by the final
\* pass.
Droppable(start_pt, pt, end_pt, eps) ==
  /\ LeEps2(2 * Deviation(start_pt, end_pt, pt) * Deviation(start_pt, end_pt, pt),
            Dist2(start_pt, end_pt), eps)
  /\ PX(end_pt) # PX(start_pt)
  /\ PY(end_pt) # PY(start_pt)
  /\ (PX(pt) - PX(start_pt)) * (PX(end_pt) - PX(pt))
     + (PY(pt) - PY(start_pt)) * (PY(end_pt) - PY(pt)) >= 0

\* The final pass over the written points of a closed curve: a point that
\* lies almost on the segment joining its neighbours is dropped, while more
\* than two points are left.  dst is rewritten in place (0-based positions
\* pos and wpos, count the number of written points).
RECURSIVE Cleanup(_, _, _, _, _, _, _, _)
Cleanup(dst, eps, new_count, iter, pos, wpos, start_pt, pt) ==
  IF ~(iter < Len(dst) /\ new_count > 2)
  THEN SubSeq(dst, 1, new_count)
  ELSE IF Droppable(start_pt, pt, dst[pos + 1], eps)
  THEN Cleanup([dst EXCEPT ![wpos + 1] = dst[pos + 1]], eps,
               new_count - 1, iter + 2, (pos + 2) % Len(dst),
               (wpos + 1) % Len(dst), dst[pos + 1],
               [dst EXCEPT ![wpos + 1] = dst[pos + 1]][((pos + 1) % Len(dst)) + 1])
  ELSE Cleanup([dst EXCEPT ![wpos + 1] = pt], eps,
               new_count, iter + 1, (pos + 1) % Len(dst),
               (wpos + 1) % Len(dst), pt, dst[pos + 1])

\* The points written before the final pass.
Written(src, eps, ini) ==
  IF LeEps2(ini.max, 1, eps)
  THEN <<SrcAt(src, ini.pos)>>
  ELSE SplitSlices(src, eps,
                   <<[start |-> (ini.rs + ini.pos) % Len(src), end |-> ini.pos],
                     [start |-> ini.pos, end |-> (ini.rs + ini.pos) % Len(src)]>>,
                   <<>>)

FinalPass(written, eps) ==
  Cleanup(written, eps, Len(written), 0, 1 % Len(written), 0,
          written[Len(written)], written[1])

\* cv2.approxPolyDP(contour, epsilon, True) of a non-empty contour.
approxPolyDP(src, eps) == FinalPass(Written(src, eps, InitSlices(src)), eps)

\* ------------------------------------------------------------ images
\* An image is [shape, px]: shape is <<h, w>> (single channel, px a
\* 1-tuple per pixel) or <<h, w, c>> (px a tuple of c channels, B G R [A]);
\* px is indexed by <<x, y>>.  None is the decoder's "no image".
None == [shape |-> <<>>, px |-> <<>>]

\* No exception raised.
NoError == "None"

Width(im) == im.shape[2]

Height(im) == im.shape[1]

\* The pixel values the inputs are built from: opaque black, fully
\* transparent colour, half-transparent colour, opaque white.
Palette ==
  <<<<0, 0, 0, 255>>, <<30, 20, 10, 0>>, <<50, 100, 200, 128>>,
    <<255, 255, 255, 255>>>>

Layouts == {"gray", "bgr", "bgra"}

PixelOf(layout, q) ==
  CASE layout = "gray" -> <<q[1]>>
    [] layout = "bgr"  -> <<q[1], q[2], q[3]>>
    [] layout = "bgra" -> q

ShapeOf(layout, cols, rows) ==
  CASE layout = "gray" -> <<rows, cols>>
    [] layout = "bgr"  -> <<rows, cols, 3>>
    [] layout = "bgra" -> <<rows, cols, 4>>

\* The decoded images: every size of at most MaxPixels pixels, every channel
\* layout; the pixels are all Palette[k] (step = 0) or run through the
\* palette from Palette[k] (step = 1).
Dims == {d \in (1 .. MaxPixels) \X (1 .. MaxPixels) : d[1] * d[2] <= MaxPixels}

MakeImage(layout, cols, rows, k, step) ==
  [shape |-> ShapeOf(layout, cols, rows),
   px |-> [p \in Grid(cols, rows) |->
             PixelOf(layout,
                     Palette[((k + step * (p[1] + p[2] * cols)) % Len(Palette)) + 1])]]

Images ==
  {MakeImage(layout, d[1], d[2], k, 0) :
     layout \in Layouts, d \in Dims, k \in 0 .. Len(Palette) - 1}
  \cup {MakeImage(layout, d[1], d[2], k, 1) :
          layout \in Layouts, d \in Dims, k \in {0, 1}}

\* The values of min_area and of detail (as fractions <<num, den>>; the
\* default is 0.0015) that the runs are given.
MinAreas == {0, 1, 2}

DefaultDetail == <<3, 2000>>

Details == {<<0, 1>>, DefaultDetail, <<1, 2>>}

\* Variant of the alpha normalisation: every pixel that is not fully opaque
\* becomes white.
NormalizeAlphaBelow255(im) ==
  [shape |-> <<im.shape[1], im.shape[2], 3>>,
   px |-> [p \in DOMAIN im.px |->
             IF im.px[p][4] < 255
             THEN <<255, 255, 255>>
             ELSE <<im.px[p][1], im.px[p][2], im.px[p][3]>>]]

\* Lines 27-30: np.where(alpha[..., None] == 0, white_bg, img[:, :, :3]).
NormalizeAlpha(im) ==
  [shape |-> <<im.shape[1], im.shape[2], 3>>,
   px |-> [p \in DOMAIN im.px |->
             IF im.px[p][4] = 0
             THEN <<255, 255, 255>>
             ELSE <<im.px[p][1], im.px[p][2], im.px[p][3]>>]]

\* Whether every pixel of the image has the same value.
Uniform(im) == \A p, q \in DOMAIN im.px : im.px[p] = im.px[q]

\* Lines 44-46: closing (2 iterations) then opening (1 iteration).
CleanMask(thr, cols, rows) == MorphOpen(MorphClose(thr, cols, rows), cols, rows)

\* The masks lines 34-46 can leave in clean for an image of each size
\* <<w, h>>, the thresholded mask being any binary mask: pairs <<size, masks>>.
CleanMasksBySize ==
  {<<d, {CleanMask(thr, d[1], d[2]) : thr \in SUBSET Grid(d[1], d[2])}>> :
     d \in Dims}

\* Lines 34-46: the masks the grayscale, blur, inverse adaptive threshold
\* and morphology can produce.  A pixel is foreground after the threshold
\* only where it is darker than its local mean by more than the offset 8, so
\* a uniform image has none.
CleanMasks(im) ==
  IF Uniform(im)
  THEN {CleanMask({}, Width(im), Height(im))}
  ELSE (CHOOSE t \in CleanMasksBySize : t[1] = <<Width(im), Height(im)>>)[2]

\* The inputs of the loop body taken on its own: a 3-channel image of at most
\* MaxSide by MaxSide pixels, and as contour any closed chain of at most
\* MaxChainLen 8-neighbour steps through points at most Margin outside a
\* MaxSide by MaxSide image (line 57 takes whatever point arrays it is given).
MaxSide == 2

Margin == 2

MaxChainLen == 3

LoopImages ==
  {MakeImage("bgr", d[1], d[2], 0, 1) : d \in (1 .. MaxSide) \X (1 .. MaxSide)}

Window(cols, rows) ==
  (0 - Margin .. cols - 1 + Margin) \X (0 - Margin .. rows - 1 + Margin)

Adjacent(p, q) == p # q /\ Abs(p[1] - q[1]) <= 1 /\ Abs(p[2] - q[2]) <= 1

RECURSIVE Chains(_, _)
Chains(win, n) ==
  IF n = 1
  THEN {<<p>> : p \in win}
  ELSE UNION {{Append(c, q) : q \in {q \in win : Adjacent(c[n - 1], q)}} :
                c \in Chains(win, n - 1)}

ClosedChains(cols, rows) ==
  UNION {{c \in Chains(Window(cols, rows), n) : n = 1 \/ Adjacent(c[n], c[1])} :
           n \in 1 .. MaxChainLen}

LoopInputs ==
  {[image |-> im, contour |-> c] :
     im \in LoopImages, c \in ClosedChains(MaxSide, MaxSide)}

\* ------------------------------------------------------------ SVG values
HexDigits ==
  <<"0", "1", "2", "3", "4", "5", "6", "7",
    "8", "9", "a", "b", "c", "d", "e", "f">>

\* "%02x" of a value in 0..255.
Hex2(v) == <<HexDigits[(v \div 16) + 1], HexDigits[(v % 16) + 1]>>

\* "#rrggbb"
HexColor(r, g, b) == <<"#">> \o Hex2(r) \o Hex2(g) \o Hex2(b)

\* Variant of the clamp: the lower bound is 1.
ClampFromOne(v, n) == Min2(Max2(v, 1), n - 1)

\* Line 72: the index clamp min(max(v, 0), n - 1).
Clamp(v, n) == Min2(Max2(v, 0), n - 1)

\* Lines 67-71: the sampling point of a contour before clamping, and whether
\* it is the first vertex of the simplified polygon.
SamplePoint(contour, smooth_contour) ==
  LET M == moments(contour)
  IN IF M.m00x2 # 0
     THEN [cx |-> TruncDiv(M.num10, M.den), cy |-> TruncDiv(M.num01, M.den),
           fallback |-> FALSE]
     ELSE [cx |-> PX(smooth_contour[1]), cy |-> PY(smooth_contour[1]),
           fallback |-> TRUE]

\* Variant of the path data: the first point is taken to be number 0 of a
\* numbering that starts at 1, so no point gets "M".
PathDataNoMove(smooth_contour) ==
  [k \in 1 .. Len(smooth_contour) |->
     [cmd |-> IF k = 0 THEN "M" ELSE "L",
      x |-> PX(smooth_contour[k]), y |-> PY(smooth_contour[k])]]
  \o <<[cmd |-> "Z"]>>

\* Lines 76-81: the commands of the path data.
PathData(smooth_contour) ==
  [k \in 1 .. Len(smooth_contour) |->
     [cmd |-> IF k = 1 THEN "M" ELSE "L",
      x |-> PX(smooth_contour[k]), y |-> PY(smooth_contour[k])]]
  \o <<[cmd |-> "Z"]>>

\* Variant of dwg.add: the element is put before those added.
AddElementFirst(elements, e) == <<e>> \o elements

\* Lines 55 and 83: dwg.add(element) puts the element after those added.
AddElement(elements, e) == Append(elements, e)

\* Variants of the area test: "<=" for "<", the comparison reversed, and
\* the threshold lowered by one.
TooSmallOrEqual(contour, minArea) == contourArea2(contour) <= 2 * minArea

TooSmallReversed(contour, minArea) == contourArea2(contour) > 2 * minArea

TooSmallLowered(contour, minArea) == contourArea2(contour) < 2 * (minArea - 1)

\* Line 58: cv2.contourArea(contour) < min_area.
TooSmall(contour, minArea) == contourArea2(contour) < 2 * minArea

\* ------------------------------------------------------------ state
VARIABLES
  pc,        \* the statement the run is at
  file,      \* what cv2.imread decodes from input_path (None or an image)
  min_area,  \* the parameter min_area
  detail,    \* the parameter detail, <<num, den>>
  img,       \* the variable img
  w, h,      \* the variables w and h
  clean,     \* the foreground set of the mask clean
  contours,  \* the variable contours
  i,         \* the number of the contour the loop is at
  dwg,       \* the elements added to the drawing, in order
  saved,     \* the documents written to output_path, in order
  err,       \* the exception the run raised, or NoError
  stages,    \* history: the stages run so far, in order
  regions    \* history: per emitted path, the contour and what was computed

vars ==
  <<pc, file, min_area, detail, img, w, h, clean, contours, i, dwg, saved,
    err, stages, regions>>

Init ==
  /\ pc = "imread"
  /\ file \in {None} \cup Images
  /\ min_area \in MinAreas
  /\ detail \in Details
  /\ img = None
  /\ w = 0
  /\ h = 0
  /\ clean = {}
  /\ contours = <<>>
  /\ i = 0
  /\ dwg = <<>>
  /\ saved = <<>>
  /\ err = NoError
  /\ stages = <<>>
  /\ regions = <<>>

\* Lines 20-22: the load succeeds ...
Load ==
  /\ pc = "imread"
  /\ file # None
  /\ img' = file
  /\ pc' = "shape"
  /\ stages' = Append(stages, "imread")
  /\ UNCHANGED <<file, min_area, detail, w, h, clean, contours, i, dwg,
                 saved, err, regions>>

\* ... or raises FileNotFoundError.
LoadFails ==
  /\ pc = "imread"
  /\ file = None
  /\ err' = "FileNotFoundError"
  /\ pc' = "raised"
  /\ stages' = Append(stages, "imread")
  /\ UNCHANGED <<file, min_area, detail, img, w, h, clean, contours, i, dwg,
                 saved, regions>>

\* Lines 24-30 on an image with a channel axis: h, w, and the alpha
\* normalisation when there are 4 channels.
Normalize ==
  /\ pc = "shape"
  /\ Len(img.shape) >= 3
  /\ h' = img.shape[1]
  /\ w' = img.shape[2]
  /\ img' = IF img.shape[3] = 4 THEN NormalizeAlpha(img) ELSE img
  /\ pc' = "preprocess"
  /\ stages' = Append(stages, "normalize")
  /\ UNCHANGED <<file, min_area, detail, clean, contours, i, dwg, saved,
                 err, regions>>

\* Line 27 on a 2-dimensional image: img.shape[2] raises IndexError.
ShapeFails ==
  /\ pc = "shape"
  /\ Len(img.shape) < 3
  /\ h' = img.shape[1]
  /\ w' = img.shape[2]
  /\ err' = "IndexError"
  /\ pc' = "raised"
  /\ stages' = Append(stages, "normalize")
  /\ UNCHANGED <<file, min_area, detail, img, clean, contours, i, dwg,
                 saved, regions>>

\* Lines 34-46: grayscale, blur, threshold, then closing and opening.
Preprocess ==
  /\ pc = "preprocess"
  /\ \E mask \in CleanMasks(img) : clean' = mask
  /\ pc' = "findContours"
  /\ stages' = Append(stages, "preprocess")
  /\ UNCHANGED <<file, min_area, detail, img, w, h, contours, i, dwg,
                 saved, err, regions>>

\* Line 49: the outer contours, in the order of the scan or in its reverse
\* (the library returns them in either, depending on its version).
FindContours ==
  /\ pc = "findContours"
  /\ \E cs \in {TraceContours(clean, w, h),
                Reverse(TraceContours(clean, w, h))} : contours' = cs
  /\ pc' = "drawing"
  /\ stages' = Append(stages, "findContours")
  /\ UNCHANGED <<file, min_area, detail, img, w, h, clean, i, dwg, saved,
                 err, regions>>

\* Lines 52-55: the drawing and its background rectangle.
CreateDrawing ==
  /\ pc = "drawing"
  /\ LET bg_rgb == img.px[<<0, 0>>]
     IN dwg' = AddElement(dwg, [tag |-> "rect", insert |-> <<0, 0>>,
                                size |-> <<w, h>>,
                                fill |-> HexColor(bg_rgb[3], bg_rgb[2], bg_rgb[1])])
  /\ i' = 1
  /\ pc' = "loop"
  /\ stages' = Append(stages, "drawing")
  /\ UNCHANGED <<file, min_area, detail, img, w, h, clean, contours, saved,
                 err, regions>>

\* Lines 57-59: a contour below min_area is skipped.
SkipContour ==
  /\ pc = "loop"
  /\ i <= Len(contours)
  /\ TooSmall(contours[i], min_area)
  /\ i' = i + 1
  /\ UNCHANGED <<pc, file, min_area, detail, img, w, h, clean, contours,
                 dwg, saved, err, stages, regions>>

\* Lines 57-83: any other contour is simplified, coloured and added.
EmitContour ==
  /\ pc = "loop"
  /\ i <= Len(contours)
  /\ ~TooSmall(contours[i], min_area)
  /\ \E smooth_contour \in
          {approxPolyDP(contours[i], Epsilon(detail, arcLength(contours[i])))} :
       \E at \in {SamplePoint(contours[i], smooth_contour)} :
         \E xy \in {<<Clamp(at.cx, w), Clamp(at.cy, h)>>} :
           /\ dwg' = AddElement(dwg, [tag |-> "path",
                                      d |-> PathData(smooth_contour),
                                      fill |-> HexColor(img.px[xy][3],
                                                        img.px[xy][2],
                                                        img.px[xy][1]),
                                      stroke |-> "none"])
           /\ regions' = Append(regions,
                                [k |-> i, smooth |-> smooth_contour,
                                 cx |-> at.cx, cy |-> at.cy,
                                 fallback |-> at.fallback,
                                 x |-> xy[1], y |-> xy[2]])
  /\ i' = i + 1
  /\ UNCHANGED <<pc, file, min_area, detail, img, w, h, clean, contours,
                 saved, err, stages>>

\* Variant of the save: it runs when the last contour is still to be
\* processed.
SaveEarly ==
  /\ pc = "loop"
  /\ i >= Len(contours)
  /\ saved' = Append(saved, dwg)
  /\ pc' = "done"
  /\ stages' = Append(stages, "save")
  /\ UNCHANGED <<file, min_area, detail, img, w, h, clean, contours, i, dwg,
                 err, regions>>

\* Line 85: dwg.save() once the loop is over.
Save ==
  /\ pc = "loop"
  /\ i > Len(contours)
  /\ saved' = Append(saved, dwg)
  /\ pc' = "done"
  /\ stages' = Append(stages, "save")
  /\ UNCHANGED <<file, min_area, detail, img, w, h, clean, contours, i, dwg,
                 err, regions>>

Next ==
  \/ Load
  \/ LoadFails
  \/ Normalize
  \/ ShapeFails
  \/ Preprocess
  \/ FindContours
  \/ CreateDrawing
  \/ SkipContour
  \/ EmitContour
  \/ Save

Spec == Init /\ [][Next]_vars

\* The loop of lines 57-83 and the save, from the state line 55 leaves, for
\* one contour that is any closed chain.
InitLoop ==
  /\ pc = "loop"
  /\ \E inp \in LoopInputs :
       /\ file = inp.image
       /\ img = inp.image
       /\ w = Width(inp.image)
       /\ h = Height(inp.image)
       /\ contours = <<inp.contour>>
       /\ dwg = AddElement(<<>>,
                           [tag |-> "rect", insert |-> <<0, 0>>,
                            size |-> <<Width(inp.image), Height(inp.image)>>,
                            fill |-> HexColor(inp.image.px[<<0, 0>>][3],
                                              inp.image.px[<<0, 0>>][2],
                                              inp.image.px[<<0, 0>>][1])])
  /\ min_area \in MinAreas
  /\ detail = DefaultDetail
  /\ clean = {}
  /\ i = 1
  /\ saved = <<>>
  /\ err = NoError
  /\ stages = <<"imread", "normalize", "preprocess", "findContours", "drawing">>
  /\ regions = <<>>

NextLoop ==
  \/ SkipContour
  \/ EmitContour
  \/ Save

SpecLoop == InitLoop /\ [][NextLoop]_vars

\* ------------------------------------------------------------ properties
\* The contours the loop has dealt with so far.
Processed == 1 .. Min2(i - 1, Len(contours))

\* The contours that have a region (a path) so far.
Emitted == {regions[j].k : j \in 1 .. Len(regions)}

\* area >= min_area for contour number k.
Qualifies(k) == contourArea2(contours[k]) >= 2 * min_area

InLoop == pc \in {"loop", "done"}

\* The simplified polygon of contour number k, computed afresh.
Simplified(k) ==
  approxPolyDP(contours[k], Epsilon(detail, arcLength(contours[k])))

\* C1: a contour the loop has dealt with has a path if and only if its area
\* is >= min_area (so area min_area is included and any smaller area is
\* excluded); the drawing has one element per region besides the rectangle;
\* and nothing was simplified or sampled for a contour below min_area.
C1_AreaFilter ==
  /\ InLoop =>
       /\ \A k \in Processed : (k \in Emitted) <=> Qualifies(k)
       /\ Len(dwg) = 1 + Len(regions)
  /\ \A j \in 1 .. Len(regions) :
       /\ regions[j].k \in 1 .. Len(contours)
       /\ ~(contourArea2(contours[regions[j].k]) < 2 * min_area)

\* A finished run with min_area > 0 that emitted a contour of area exactly
\* min_area and skipped a smaller one or emitted nothing else.
C1_Witness ==
  /\ pc = "done"
  /\ min_area > 0
  /\ \E k \in Emitted : contourArea2(contours[k]) = 2 * min_area

\* C2: nothing is in the drawing before the rectangle; from then on the
\* first element is the full-canvas rectangle, every other element is a
\* path, the j-th path is that of the j-th qualifying contour in extraction
\* order, and at the end there is exactly one path per qualifying contour.
C2_ElementOrder ==
  /\ ~InLoop => dwg = <<>>
  /\ InLoop =>
       /\ Len(dwg) >= 1
       /\ dwg[1].tag = "rect"
       /\ dwg[1].insert = <<0, 0>>
       /\ dwg[1].size = <<w, h>>
       /\ \A j \in 2 .. Len(dwg) : dwg[j].tag = "path"
       /\ \E f \in [1 .. Len(dwg) - 1 -> 1 .. Len(contours)] :
            /\ \A j \in DOMAIN f : \A j2 \in DOMAIN f : j < j2 => f[j] < f[j2]
            /\ {f[j] : j \in DOMAIN f} = {k \in Processed : Qualifies(k)}
            /\ \A j \in DOMAIN f : dwg[j + 1].d = PathData(Simplified(f[j]))

\* A finished run whose drawing has the rectangle and then two different
\* paths.
C2_Witness ==
  /\ pc = "done"
  /\ Len(dwg) >= 3
  /\ dwg[2].d # dwg[3].d

\* No contour qualifies, once extraction has run.
NoneQualifies ==
  /\ pc \in {"drawing", "loop", "done"}
  /\ \A k \in 1 .. Len(contours) : ~Qualifies(k)

\* C3: when no contour qualifies the run raises nothing, can always go on
\* (to the rectangle, past a contour, or to the save) until it is done, and
\* when done has saved a document that holds the background rectangle and
\* nothing else.
C3_EmptyResult ==
  NoneQualifies =>
    /\ err = NoError
    /\ pc # "done" => ENABLED (CreateDrawing \/ SkipContour \/ Save)
    /\ pc = "done" =>
         /\ Len(saved) = 1
         /\ Len(saved[1]) = 1
         /\ saved[1][1].tag = "rect"

\* A finished run that had contours, none of them qualifying.
C3_Witness ==
  /\ NoneQualifies
  /\ pc = "done"
  /\ contours # <<>>
  /\ saved # <<>>

\* C4: when the decoder returns None the run raises FileNotFoundError with
\* no stage after the load run and nothing saved; a document is saved only
\* once every contour has been processed, it is the drawing as it stands,
\* and a finished run has saved exactly once.
C4_LoadErrorAndSingleSave ==
  /\ (file = None /\ pc # "imread") =>
       /\ pc = "raised"
       /\ err = "FileNotFoundError"
       /\ stages = <<"imread">>
       /\ img = None
       /\ contours = <<>>
       /\ dwg = <<>>
       /\ saved = <<>>
  /\ Len(saved) <= 1
  /\ saved # <<>> =>
       /\ pc = "done"
       /\ i = Len(contours) + 1
       /\ saved[1] = dwg
  /\ pc = "done" => Len(saved) = 1
  /\ pc = "raised" => saved = <<>>

\* The run has raised on a file that does not decode.
C4_WitnessRaised == file = None /\ pc = "raised"

\* C5 (as stated): a run whose image loaded never raises, whatever the
\* channel layout.
C5_LoadedNeverRaises == file # None => pc # "raised"

\* The image has 4 channels.
HasAlpha(im) == Len(im.shape) = 3 /\ im.shape[3] = 4

\* The opaque white 3-channel image of the size of im.
WhiteLike(im) ==
  [shape |-> <<im.shape[1], im.shape[2], 3>>,
   px |-> [p \in DOMAIN im.px |-> <<255, 255, 255>>]]

\* C6: after the normalisation of a 4-channel image, img has 3 channels and
\* the same height and width, a pixel of alpha 0 is white, any other pixel
\* has its three colour channels; so an image of alpha 0 everywhere gives
\* the opaque white image; a 3-channel image is unchanged.
C6_AlphaNormalisation ==
  pc \in {"preprocess", "findContours", "drawing", "loop", "done"} =>
    /\ HasAlpha(file) =>
         /\ img.shape = <<file.shape[1], file.shape[2], 3>>
         /\ h = file.shape[1] /\ w = file.shape[2]
         /\ DOMAIN img.px = DOMAIN file.px
         /\ \A p \in DOMAIN file.px :
              /\ file.px[p][4] = 0 => img.px[p] = <<255, 255, 255>>
              /\ file.px[p][4] # 0 =>
                   img.px[p] = <<file.px[p][1], file.px[p][2], file.px[p][3]>>
         /\ (\A p \in DOMAIN file.px : file.px[p][4] = 0) =>
              img = WhiteLike(file)
    /\ ~HasAlpha(file) => img = file

\* A normalised 4-channel image that has a pixel of alpha 0 and a pixel of
\* alpha strictly between 0 and 255.
C6_Witness ==
  /\ pc = "preprocess"
  /\ HasAlpha(file)
  /\ \E p \in DOMAIN file.px : file.px[p][4] = 0
  /\ \E p \in DOMAIN file.px : file.px[p][4] > 0 /\ file.px[p][4] < 255

\* "#" and six hexadecimal digits.
IsHexColor(c) ==
  /\ Len(c) = 7
  /\ c[1] = "#"
  /\ \A k \in 2 .. 7 : \E n \in DOMAIN HexDigits : c[k] = HexDigits[n]

\* C7: the path of a region whose polygon has n >= 1 points has n + 1
\* commands: M with the first point, L with each further point in polygon
\* order, then Z; M is nowhere else and Z is nowhere else; the path has a
\* "#rrggbb" fill and stroke "none".
C7_PathCommands ==
  \A j \in 1 .. Len(regions) :
    LET poly == regions[j].smooth
        path == dwg[j + 1]
    IN /\ Len(poly) >= 1
       /\ path.tag = "path"
       /\ Len(path.d) = Len(poly) + 1
       /\ \A k \in 1 .. Len(poly) :
            /\ path.d[k].cmd = (IF k = 1 THEN "M" ELSE "L")
            /\ path.d[k].x = PX(poly[k])
            /\ path.d[k].y = PY(poly[k])
       /\ path.d[Len(poly) + 1] = [cmd |-> "Z"]
       /\ IsHexColor(path.fill)
       /\ path.stroke = "none"

\* A region whose polygon has at least three points has been emitted.
C7_Witness == \E j \in 1 .. Len(regions) : Len(regions[j].smooth) >= 3

\* C8: the coordinates a region's colour was read at are inside the image,
\* 0 <= x <= w - 1 and 0 <= y <= h - 1, whatever the centroid or the
\* fallback vertex is; a coordinate of the centroid or vertex that is inside
\* already is the one used; and the fill is the colour of that pixel.
C8_SampleInBounds ==
  \A j \in 1 .. Len(regions) :
    LET r == regions[j]
        c == contours[r.k]
    IN /\ r.x >= 0 /\ r.x <= w - 1
       /\ r.y >= 0 /\ r.y <= h - 1
       /\ (r.cx >= 0 /\ r.cx <= w - 1) => r.x = r.cx
       /\ (r.cy >= 0 /\ r.cy <= h - 1) => r.y = r.cy
       /\ r.fallback <=> A00(c) = 0
       /\ r.fallback => r.cx = PX(r.smooth[1]) /\ r.cy = PY(r.smooth[1])
       /\ ~r.fallback => /\ r.cx = TruncDiv(A10(c), 3 * A00(c))
                         /\ r.cy = TruncDiv(A01(c), 3 * A00(c))
       /\ dwg[j + 1].fill = HexColor(img.px[<<r.x, r.y>>][3],
                                     img.px[<<r.x, r.y>>][2],
                                     img.px[<<r.x, r.y>>][1])

\* A region whose centroid is left of the image and below it.
C8_WitnessCentroidOutside ==
  \E j \in 1 .. Len(regions) :
    /\ ~regions[j].fallback
    /\ regions[j].cx < 0
    /\ regions[j].cy > h - 1

\* Whether the sequence a is a subsequence of the sequence b.
RECURSIVE IsSubseq(_, _)
IsSubseq(a, b) ==
  IF a = <<>> THEN TRUE
  ELSE IF b = <<>> THEN FALSE
  ELSE IF Head(a) = Head(b) THEN IsSubseq(Tail(a), Tail(b))
  ELSE IsSubseq(a, Tail(b))

\* The closed sequence c started at its point number r + 1.
Rotate(c, r) == [k \in 1 .. Len(c) |-> c[((k - 1 + r) % Len(c)) + 1]]

C10_NoFallback ==
  /\ min_area > 0 =>
       \A j \in 1 .. Len(regions) :
         LET c == contours[regions[j].k]
         IN /\ ~regions[j].fallback
            /\ A00(c) # 0
            /\ regions[j].cx = TruncDiv(A10(c), 3 * A00(c))
            /\ regions[j].cy = TruncDiv(A01(c), 3 * A00(c))
            /\ regions[j].x = Min2(Max2(regions[j].cx, 0), w - 1)
            /\ regions[j].y = Min2(Max2(regions[j].cy, 0), h - 1)
  /\ \A j \in 1 .. Len(regions) : regions[j].fallback => min_area <= 0

\* A region has been emitted with min_area > 0.
C10_Witness == min_area > 0 /\ regions # <<>>

====
